---------------------------- MODULE Spec2Model ----------------------------
(***************************************************************************)
(* Model of the PNG chunk codec of pngsecret: src/chunk_type.rs            *)
(* (ChunkType) and src/chunk.rs (Chunk).                                   *)
(*                                                                         *)
(* The codec is a library of functions over owned values.  The state of    *)
(* the model is one run of a caller: the values it passed in and the       *)
(* values, errors or panics it got back.  A byte is a number in 0..255, a  *)
(* byte slice a sequence of bytes, a str a sequence of Unicode scalar      *)
(* values (as_bytes is its UTF-8 encoding).  The u32 `length` is a         *)
(* number; the u32 `crc` is the set of the bit positions (0 = least        *)
(* significant) that are 1, since its values exceed the checker's          *)
(* integers.  usize is taken to be 64 bits wide, so `8 + length as usize`  *)
(* cannot overflow.                                                        *)
(***************************************************************************)
EXTENDS Integers, Sequences, FiniteSets, TLC

(* ------------------------------ bounds -------------------------------- *)

\* longest payload of a generated frame or chunk
MaxData == 2
\* longest string (in chars) handed to ChunkType::from_str
MaxStrLen == 5
\* largest small value of the declared length field of a generated frame
MaxDeclLen == 5

(* --------------------------- values and outcomes ---------------------- *)

\* every outcome is a record with a tag: nothing yet, a panic, Ok(v) or Err(e)
None == [tag |-> "None"]
Panic == [tag |-> "Panic"]

Ok(v) == [tag |-> "Ok", val |-> v]
Err(e) == [tag |-> "Err", err |-> e]

IsOk(r) == r.tag = "Ok"
IsErr(r) == r.tag = "Err"
IsPanic(r) == r.tag = "Panic"
IsNone(r) == r.tag = "None"

(* ------------------------------ std helpers --------------------------- *)

\* u8::is_ascii_alphabetic / char::is_ascii_alphabetic
is_ascii_alphabetic(x) == (65 <= x /\ x <= 90) \/ (97 <= x /\ x <= 122)

\* u32::from_be_bytes on a 4-byte array
from_be_bytes(b) == b[1] * 16777216 + b[2] * 65536 + b[3] * 256 + b[4]

\* u32::to_be_bytes of a number
to_be_bytes(n) ==
    << n \div 16777216, (n \div 65536) % 256, (n \div 256) % 256, n % 256 >>

\* the bits of a byte, as the set of positions that are 1
ByteBits(b) == { i \in 0..7 : (b \div (2 ^ i)) % 2 = 1 }

\* byte k (0 = least significant) of a 32-bit word given as a set of bits
WordByte(w, k) ==
    LET bit(i) == IF (8 * k + i) \in w THEN 2 ^ i ELSE 0
    IN  bit(0) + bit(1) + bit(2) + bit(3) + bit(4) + bit(5) + bit(6) + bit(7)

\* u32::to_be_bytes of a word given as a set of bits
word_to_be_bytes(w) ==
    << WordByte(w, 3), WordByte(w, 2), WordByte(w, 1), WordByte(w, 0) >>

\* u32::from_be_bytes giving the word as a set of bits
word_from_be_bytes(b) ==
    UNION { { 8 * (4 - k) + i : i \in ByteBits(b[k]) } : k \in 1..4 }

(* ------------------------------ CRC-32 -------------------------------- *)

\* the reflected CRC-32 polynomial 0xEDB88320 of PNG and zlib
CrcPoly == {31, 30, 29, 27, 26, 24, 23, 21, 20, 19, 15, 9, 8, 5}

AllOnes == 0..31

Xor(a, b) == (a \ b) \cup (b \ a)

ShiftRight1(w) == { i - 1 : i \in w \ {0} }

\* one bit step of the reflected CRC
CrcStep(w) == IF 0 \in w THEN Xor(ShiftRight1(w), CrcPoly) ELSE ShiftRight1(w)

\* a byte folded into the running CRC register
CrcByte(w, b) ==
    CrcStep(CrcStep(CrcStep(CrcStep(CrcStep(CrcStep(CrcStep(CrcStep(
        Xor(w, ByteBits(b))))))))))

RECURSIVE CrcFold(_, _, _)
CrcFold(w, bs, i) ==
    IF i > Len(bs) THEN w
    ELSE LET next == CrcByte(w, bs[i])
         IN  IF next = {} THEN CrcFold({}, bs, i + 1)
             ELSE CrcFold(next, bs, i + 1)

\* crc32fast::hash: CRC-32 with initial value and final xor 0xFFFFFFFF
crc32(bs) == Xor(CrcFold(AllOnes, bs, 1), AllOnes)

(* ------------------------------- UTF-8 -------------------------------- *)

IsCont(b) == 128 <= b /\ b <= 191

\* the width of the UTF-8 sequence that starts at position i of bytes, or 0
\* when no well-formed sequence starts there (core::str::from_utf8)
Utf8Width(bs, i) ==
    LET n == Len(bs)
        b0 == bs[i]
        c(k) == bs[i + k]
    IN  IF b0 < 128 THEN 1
        ELSE IF 194 <= b0 /\ b0 <= 223
            THEN IF i + 1 <= n /\ IsCont(c(1)) THEN 2 ELSE 0
        ELSE IF 224 <= b0 /\ b0 <= 239
            THEN IF i + 2 <= n /\ IsCont(c(1)) /\ IsCont(c(2))
                    /\ (b0 = 224 => c(1) >= 160)
                    /\ (b0 = 237 => c(1) <= 159)
                 THEN 3 ELSE 0
        ELSE IF 240 <= b0 /\ b0 <= 244
            THEN IF i + 3 <= n /\ IsCont(c(1)) /\ IsCont(c(2)) /\ IsCont(c(3))
                    /\ (b0 = 240 => c(1) >= 144)
                    /\ (b0 = 244 => c(1) <= 143)
                 THEN 4 ELSE 0
        ELSE 0

\* the scalar value encoded by the well-formed sequence of width w at i
Utf8Scalar(bs, i, w) ==
    LET b0 == bs[i]
        c(k) == bs[i + k] - 128
    IN  CASE w = 1 -> b0
          [] w = 2 -> (b0 - 192) * 64 + c(1)
          [] w = 3 -> (b0 - 224) * 4096 + c(1) * 64 + c(2)
          [] w = 4 -> (b0 - 240) * 262144 + c(1) * 4096 + c(2) * 64 + c(3)

RECURSIVE Utf8From(_, _)
\* std::str::from_utf8 from position i: Ok(chars) or Err
Utf8From(bs, i) ==
    IF i > Len(bs) THEN Ok(<< >>)
    ELSE LET w == Utf8Width(bs, i)
         IN  IF w = 0 THEN Err("Utf8Error")
             ELSE LET rest == Utf8From(bs, i + w)
                  IN  IF IsOk(rest)
                      THEN Ok(<< Utf8Scalar(bs, i, w) >> \o rest.val)
                      ELSE rest

\* std::str::from_utf8
from_utf8(bs) == Utf8From(bs, 1)

\* the UTF-8 encoding of one scalar value
Utf8Char(c) ==
    IF c < 128 THEN << c >>
    ELSE IF c < 2048 THEN << 192 + (c \div 64), 128 + (c % 64) >>
    ELSE IF c < 65536
        THEN << 224 + (c \div 4096), 128 + ((c \div 64) % 64), 128 + (c % 64) >>
    ELSE << 240 + (c \div 262144), 128 + ((c \div 4096) % 64),
            128 + ((c \div 64) % 64), 128 + (c % 64) >>

RECURSIVE StrBytesFrom(_, _)
StrBytesFrom(s, i) ==
    IF i > Len(s) THEN << >> ELSE Utf8Char(s[i]) \o StrBytesFrom(s, i + 1)

\* str::as_bytes
str_as_bytes(s) == StrBytesFrom(s, 1)


\* value[from..to] of Rust (0-based, `to` excluded): a panic when out of range
Slice(value, from, to) ==
    IF from > to \/ to > Len(value) THEN Panic
    ELSE Ok(SubSeq(value, from + 1, to))

\* <[u8; 4]>::try_from(&[u8]): fails unless the slice has 4 bytes
try_into_array4(slice) ==
    IF Len(slice) = 4 THEN Ok(slice) ELSE Err("TryFromSliceError")

(* ------------------------------ ChunkType ----------------------------- *)

\* pub struct ChunkType([u8; 4])
ChunkType(b) == [bytes |-> b]

\* ChunkType::bytes
ChunkType_bytes(self) == self.bytes

\* the predicates and the equality are unimplemented!(): each call panics
is_critical(self) == Panic
is_public(self) == Panic
is_safe_to_copy(self) == Panic
is_valid(self) == Panic
is_reserved_bit_valid(self) == Panic
ChunkType_eq(self, other) == Panic

\* a slip: `any` for `all`
ChunkType_try_from_any(value) ==
    IF \E i \in 1..4 : is_ascii_alphabetic(value[i])
    THEN Ok(ChunkType(value))
    ELSE Err("InvalidArray")

\* impl TryFrom<[u8; 4]> for ChunkType
ChunkType_try_from(value) ==
    IF \A i \in 1..4 : is_ascii_alphabetic(value[i])
    THEN Ok(ChunkType(value))
    ELSE Err("InvalidArray")

\* impl FromStr for ChunkType
ChunkType_from_str(s) ==
    IF ~ (\A i \in 1..Len(s) : is_ascii_alphabetic(s[i]))
    THEN Err("InvalidString")
    ELSE LET b == try_into_array4(str_as_bytes(s))
         IN  IF IsOk(b) THEN Ok(ChunkType(b.val)) ELSE Err("InvalidString")

(* -------------------------------- Chunk ------------------------------- *)

\* pub struct Chunk { length, chunk_type, data, crc }
Chunk(length, chunk_type, data, crc) ==
    [length |-> length, chunk_type |-> chunk_type, data |-> data, crc |-> crc]

\* Chunk::new is unimplemented!(): the call panics
Chunk_new(chunk_type, data) == Panic

\* the value Chunk::new is specified to return
Chunk_new_specified(chunk_type, data) ==
    Chunk(Len(data), chunk_type, data,
          crc32(ChunkType_bytes(chunk_type) \o data))

\* the accessors
Chunk_length(self) == self.length
Chunk_chunk_type(self) == self.chunk_type
Chunk_data(self) == self.data
Chunk_crc(self) == self.crc

\* Chunk::data_as_string: from_utf8(..).unwrap() panics on an Err
Chunk_data_as_string(self) ==
    LET t == from_utf8(self.data)
    IN  IF IsOk(t) THEN Ok(t.val) ELSE Panic

\* u32::to_le_bytes
to_le_bytes(n) ==
    << n % 256, (n \div 256) % 256, (n \div 65536) % 256, n \div 16777216 >>

\* a slip: the length written little-endian
Chunk_as_bytes_le(self) ==
    to_le_bytes(self.length) \o ChunkType_bytes(self.chunk_type)
        \o self.data \o word_to_be_bytes(self.crc)

\* Chunk::as_bytes
Chunk_as_bytes(self) ==
    LET length_bytes == to_be_bytes(self.length)
        chunk_type_bytes == ChunkType_bytes(self.chunk_type)
        crc_bytes == word_to_be_bytes(self.crc)
    IN  length_bytes \o chunk_type_bytes \o self.data \o crc_bytes

\* a slip: the minimum taken to be the 8 header bytes
TooShort_header_only(value) == Len(value) < 8

\* the first check of Chunk::try_from
TooShort(value) == Len(value) < 12

\* let data_end = 8 + length as usize
DataEnd(length) == 8 + length

\* impl TryFrom<&[u8]> for Chunk
Chunk_try_from(value) ==
    IF TooShort(value) THEN Err("InvalidArray")
    ELSE
    LET s04 == Slice(value, 0, 4) IN
    IF IsPanic(s04) THEN Panic
    ELSE
    LET length_bytes == try_into_array4(s04.val) IN
    IF ~ IsOk(length_bytes) THEN Err("InvalidArray")
    ELSE
    LET length == from_be_bytes(length_bytes.val)
        s48 == Slice(value, 4, 8)
    IN
    IF IsPanic(s48) THEN Panic
    ELSE
    LET chunk_bytes == try_into_array4(s48.val) IN
    IF ~ IsOk(chunk_bytes) THEN Err("InvalidArray")
    ELSE
    LET chunk_type == ChunkType_try_from(chunk_bytes.val) IN
    IF ~ IsOk(chunk_type) THEN Err("InvalidArray")
    ELSE
    LET data_end == DataEnd(length) IN
    IF Len(value) < data_end THEN Err("InvalidArray")
    ELSE
    LET chunk_data_bytes == Slice(value, 8, data_end) IN
    IF IsPanic(chunk_data_bytes) THEN Panic
    ELSE
    LET crc == crc32(chunk_data_bytes.val)
    IN  Ok(Chunk(length, chunk_type.val, chunk_data_bytes.val, crc))


(* ------------------------------ the caller ---------------------------- *)

\* a call that was made: its receiver or argument and what it gave back
Call(arg, result) == [tag |-> "Call", arg |-> arg, result |-> result]
Query(name, self, result) ==
    [tag |-> "Call", name |-> name, arg |-> self, result |-> result]
Called(c) == c.tag = "Call"

VARIABLES
    type_from_bytes,  \* the call of ChunkType::try_from([u8; 4])
    type_from_str,    \* the call of ChunkType::from_str
    type_query,       \* the call of a predicate of a ChunkType
    type_eq,          \* the comparison of the two ChunkTypes built
    built,            \* the call that built a Chunk from (chunk_type, data)
    parsed,           \* the call of Chunk::try_from(&[u8])
    serialized,       \* the call of Chunk::as_bytes
    text              \* the call of Chunk::data_as_string

vars == << type_from_bytes, type_from_str, type_query, type_eq,
           built, parsed, serialized, text >>

typeVars == << type_from_bytes, type_from_str, type_query, type_eq >>
chunkVars == << built, parsed, serialized, text >>

\* the caller works on one of the two components in a run
TypeRun == Called(type_from_bytes) \/ Called(type_from_str)
ChunkRun == Called(built) \/ Called(parsed)

(* ------------------------------- inputs ------------------------------- *)

RECURSIVE SeqsUpTo(_, _)
\* the sequences over S of length at most n
SeqsUpTo(S, n) ==
    IF n = 0 THEN { << >> }
    ELSE LET shorter == SeqsUpTo(S, n - 1)
         IN  shorter \cup { Append(q, x) : q \in shorter, x \in S }

\* bytes of a type tag array: 'S', '[' (between 'Z' and 'a'), 't'
TagBytes == {83, 91, 116}
TagArrays == [1..4 -> TagBytes]

\* chars of a string: '1', 'S', 't', U+00E9 (two bytes in UTF-8)
StrChars == {49, 83, 116, 233}
Strings == SeqsUpTo(StrChars, MaxStrLen)

\* payload bytes: 'A', the two bytes of U+00E9, and 0xFF (never in UTF-8)
DataBytes == {65, 195, 169, 255}
DataSeqs == SeqsUpTo(DataBytes, MaxData)

\* "RuSt", "Rust" and "Ru1t"
RuSt == << 82, 117, 83, 116 >>
Rust == << 82, 117, 115, 116 >>
Ru1t == << 82, 117, 49, 116 >>
FrameTags == {RuSt, Rust, Ru1t}
ChunkTypes == {ChunkType(RuSt), ChunkType(Rust)}

\* length fields: the small ones and two beyond any generated slice
LengthFields ==
    { to_be_bytes(n) : n \in 0..MaxDeclLen } \cup { <<0, 0, 1, 0>>, <<1, 0, 0, 0>> }

\* CRC fields: the CRC of type ++ data, the CRC of data alone, and zero
CrcFields(tag, data) ==
    { word_to_be_bytes(crc32(tag \o data)), word_to_be_bytes(crc32(data)),
      <<0, 0, 0, 0>> }

\* frames: a length field, a tag, a payload and a CRC field
Frames ==
    UNION { { l \o t \o d \o c : l \in LengthFields, c \in CrcFields(t, d) } :
            t \in FrameTags, d \in DataSeqs }

\* the slices handed to Chunk::try_from: the frames and their short prefixes
Slices ==
    Frames \cup { SubSeq(f, 1, n) : f \in Frames, n \in 0..11 }

\* the Chunks the caller holds
ChunksHeld ==
    (IF Called(built) /\ IsOk(built.result) THEN {built.result.val} ELSE {})
    \cup
    (IF Called(parsed) /\ IsOk(parsed.result) THEN {parsed.result.val} ELSE {})

\* the ChunkTypes the caller holds
TypesHeld ==
    (IF Called(type_from_bytes) /\ IsOk(type_from_bytes.result)
     THEN {type_from_bytes.result.val} ELSE {})
    \cup
    (IF Called(type_from_str) /\ IsOk(type_from_str.result)
     THEN {type_from_str.result.val} ELSE {})

(* ------------------------------- actions ------------------------------ *)

Init ==
    /\ type_from_bytes = None
    /\ type_from_str = None
    /\ type_query = None
    /\ type_eq = None
    /\ built = None
    /\ parsed = None
    /\ serialized = None
    /\ text = None

\* ChunkType::try_from(value)
TypeTryFrom ==
    /\ ~ ChunkRun
    /\ IsNone(type_from_bytes)
    /\ \E value \in TagArrays :
           type_from_bytes' = Call(value, ChunkType_try_from(value))
    /\ UNCHANGED << type_from_str, type_query, type_eq, chunkVars >>

\* ChunkType::from_str(s)
TypeFromStr ==
    /\ ~ ChunkRun
    /\ IsNone(type_from_str)
    /\ \E s \in Strings :
           type_from_str' = Call(s, ChunkType_from_str(s))
    /\ UNCHANGED << type_from_bytes, type_query, type_eq, chunkVars >>

IsCritical ==
    /\ IsNone(type_query)
    /\ \E self \in TypesHeld :
           type_query' = Query("is_critical", self, is_critical(self))
    /\ UNCHANGED << type_from_bytes, type_from_str, type_eq, chunkVars >>

IsPublic ==
    /\ IsNone(type_query)
    /\ \E self \in TypesHeld :
           type_query' = Query("is_public", self, is_public(self))
    /\ UNCHANGED << type_from_bytes, type_from_str, type_eq, chunkVars >>

IsReservedBitValid ==
    /\ IsNone(type_query)
    /\ \E self \in TypesHeld :
           type_query' =
               Query("is_reserved_bit_valid", self, is_reserved_bit_valid(self))
    /\ UNCHANGED << type_from_bytes, type_from_str, type_eq, chunkVars >>

IsSafeToCopy ==
    /\ IsNone(type_query)
    /\ \E self \in TypesHeld :
           type_query' = Query("is_safe_to_copy", self, is_safe_to_copy(self))
    /\ UNCHANGED << type_from_bytes, type_from_str, type_eq, chunkVars >>

IsValid ==
    /\ IsNone(type_query)
    /\ \E self \in TypesHeld :
           type_query' = Query("is_valid", self, is_valid(self))
    /\ UNCHANGED << type_from_bytes, type_from_str, type_eq, chunkVars >>

\* the ChunkType built from the array == the ChunkType built from the string
TypeEq ==
    /\ IsNone(type_eq)
    /\ Called(type_from_bytes) /\ IsOk(type_from_bytes.result)
    /\ Called(type_from_str) /\ IsOk(type_from_str.result)
    /\ type_eq' = Call(<< type_from_bytes.result.val, type_from_str.result.val >>,
                       ChunkType_eq(type_from_bytes.result.val,
                                    type_from_str.result.val))
    /\ UNCHANGED << type_from_bytes, type_from_str, type_query, chunkVars >>

\* Chunk::new(chunk_type, data)
ChunkNew ==
    /\ ~ TypeRun /\ ~ ChunkRun
    /\ \E chunk_type \in ChunkTypes, data \in DataSeqs :
           built' = Call(<< chunk_type, data >>, Chunk_new(chunk_type, data))
    /\ UNCHANGED << typeVars, parsed, serialized, text >>

\* the caller holds the Chunk that Chunk::new is specified to return
ChunkNewSpecified ==
    /\ ~ TypeRun /\ ~ ChunkRun
    /\ \E chunk_type \in ChunkTypes, data \in DataSeqs :
           built' = Call(<< chunk_type, data >>,
                         Ok(Chunk_new_specified(chunk_type, data)))
    /\ UNCHANGED << typeVars, parsed, serialized, text >>

\* Chunk::try_from(value) on a slice read from outside
ChunkTryFrom ==
    /\ ~ TypeRun /\ ~ ChunkRun
    /\ \E value \in Slices :
           parsed' = Call(value, Chunk_try_from(value))
    /\ UNCHANGED << typeVars, built, serialized, text >>

\* Chunk::try_from(value) on the bytes a built Chunk was serialized to
ChunkTryFromSerialized ==
    /\ IsNone(parsed)
    /\ Called(built) /\ Called(serialized)
    /\ parsed' = Call(serialized.result, Chunk_try_from(serialized.result))
    /\ UNCHANGED << typeVars, built, serialized, text >>

\* self.as_bytes()
ChunkAsBytes ==
    /\ IsNone(serialized)
    /\ \E self \in ChunksHeld :
           serialized' = Call(self, Chunk_as_bytes(self))
    /\ UNCHANGED << typeVars, built, parsed, text >>

\* self.data_as_string()
ChunkDataAsString ==
    /\ IsNone(text)
    /\ \E self \in ChunksHeld :
           text' = Call(self, Chunk_data_as_string(self))
    /\ UNCHANGED << typeVars, built, parsed, serialized >>

Next ==
    \/ TypeTryFrom
    \/ TypeFromStr
    \/ IsCritical
    \/ IsPublic
    \/ IsReservedBitValid
    \/ IsSafeToCopy
    \/ IsValid
    \/ TypeEq
    \/ ChunkTryFrom
    \/ ChunkNew
    \/ ChunkNewSpecified
    \/ ChunkTryFromSerialized
    \/ ChunkAsBytes
    \/ ChunkDataAsString

Spec == Init /\ [][Next]_vars


(* ------------------------------ properties ---------------------------- *)

\* a byte in A-Z or a-z
Letter(x) == x \in (65..90) \cup (97..122)

\* the fields of a slice of at least 12 bytes, by their offsets on the wire
WireLength(value) ==
    value[1] * 16777216 + value[2] * 65536 + value[3] * 256 + value[4]
WireTag(value) == SubSeq(value, 5, 8)
WireData(value) == SubSeq(value, 9, 8 + WireLength(value))
WireCrc(value) ==
    SubSeq(value, 9 + WireLength(value), 12 + WireLength(value))

\* at least 12 bytes, an alphabetic tag, enough bytes for the declared length
WellFormed(value) ==
    /\ Len(value) >= 12
    /\ \A i \in 1..4 : Letter(WireTag(value)[i])
    /\ Len(value) >= 12 + WireLength(value)

\* the CRC field of a well-formed slice is the CRC-32 of type ++ data
CrcConsistent(value) ==
    WireCrc(value) = word_to_be_bytes(crc32(WireTag(value) \o WireData(value)))

\* C1: a structurally well-formed slice whose CRC field differs from the
\* CRC-32 recomputed over type ++ data is rejected by Chunk::try_from.
C1_CrcMismatchRejected ==
    (Called(parsed) /\ WellFormed(parsed.arg) /\ ~ CrcConsistent(parsed.arg))
        => IsErr(parsed.result)

\* C2: every Chunk built or parsed has crc equal to the CRC-32 of its 4 type
\* bytes followed by its data.
C2_CrcOverTypeAndData ==
    \A c \in ChunksHeld :
        Chunk_crc(c) = crc32(ChunkType_bytes(Chunk_chunk_type(c)) \o Chunk_data(c))

\* C3: a well-formed, CRC-consistent frame of exactly 12 + length bytes is
\* parsed, and the parsed Chunk serializes to the very bytes of the frame.
C3_WireRoundTrip ==
    (/\ Called(parsed)
     /\ WellFormed(parsed.arg)
     /\ Len(parsed.arg) = 12 + WireLength(parsed.arg)
     /\ CrcConsistent(parsed.arg))
        => /\ IsOk(parsed.result)
           /\ (Called(serialized) /\ serialized.arg = parsed.result.val)
                  => serialized.result = parsed.arg

\* C4: the Chunk that Chunk::new(t, d) is specified to return, serialized and
\* parsed again, gives a Chunk with the same length, type, data and crc.
C4_ValueRoundTrip ==
    (/\ Called(built) /\ IsOk(built.result)
     /\ Called(serialized) /\ serialized.arg = built.result.val
     /\ Called(parsed) /\ parsed.arg = serialized.result)
        => /\ IsOk(parsed.result)
           /\ Chunk_length(parsed.result.val) = Chunk_length(built.result.val)
           /\ Chunk_chunk_type(parsed.result.val)
                  = Chunk_chunk_type(built.result.val)
           /\ Chunk_data(parsed.result.val) = Chunk_data(built.result.val)
           /\ Chunk_crc(parsed.result.val) = Chunk_crc(built.result.val)

\* C5: a slice shorter than 8 + L + 4 bytes, L its declared length, is
\* rejected by Chunk::try_from.
C5_TruncatedRejected ==
    (/\ Called(parsed)
     /\ Len(parsed.arg) >= 4
     /\ Len(parsed.arg) < 8 + WireLength(parsed.arg) + 4)
        => IsErr(parsed.result)

\* C6: data_as_string returns an error for data that is not UTF-8 and Ok of
\* the decoded text for data that is; it never panics.
C6_DataAsStringTotal ==
    Called(text) =>
        LET decoded == from_utf8(Chunk_data(text.arg))
        IN  IF IsOk(decoded) THEN text.result = Ok(decoded.val)
            ELSE IsErr(text.result)

\* the two constructors were given the same 4 bytes
SameBytesGiven ==
    /\ Called(type_from_bytes)
    /\ Called(type_from_str)
    /\ str_as_bytes(type_from_str.arg) = type_from_bytes.arg

SpecifiedAnswer(name, b) ==
    CASE name = "is_critical" -> b[1] \in 65..90
      [] name = "is_public" -> b[2] \in 65..90
      [] name = "is_reserved_bit_valid" -> b[3] \in 65..90
      [] name = "is_safe_to_copy" -> b[4] \in 97..122
      [] name = "is_valid" ->
             (\A i \in 1..4 : Letter(b[i])) /\ b[3] \in 65..90

\* C8: each classification predicate returns, without failing, the case of
\* the byte it reads.
C8_PredicatesReturnCase ==
    Called(type_query) =>
        type_query.result
            = Ok(SpecifiedAnswer(type_query.name, ChunkType_bytes(type_query.arg)))

\* the Chunk that was serialized is the one Chunk::try_from returned
SerializedParsed ==
    /\ Called(parsed) /\ IsOk(parsed.result)
    /\ Called(serialized) /\ serialized.arg = parsed.result.val

\* C9: a parsed Chunk has length() equal to the number of bytes of data(),
\* and as_bytes of it is 12 + length() bytes: the big-endian length, the 4
\* type bytes, the data, the big-endian crc.
C9_LengthAndLayout ==
    /\ (Called(parsed) /\ IsOk(parsed.result))
           => Chunk_length(parsed.result.val) = Len(Chunk_data(parsed.result.val))
    /\ SerializedParsed =>
           LET c == serialized.arg
               out == serialized.result
               n == Chunk_length(c)
           IN  /\ Len(out) = 12 + n
               /\ WireLength(out) = n
               /\ SubSeq(out, 5, 8) = ChunkType_bytes(Chunk_chunk_type(c))
               /\ SubSeq(out, 9, 8 + n) = Chunk_data(c)
               /\ word_from_be_bytes(SubSeq(out, 9 + n, 12 + n)) = Chunk_crc(c)

\* a parsed Chunk with a payload was serialized
C9_Witness ==
    /\ SerializedParsed
    /\ IsNone(built)
    /\ Chunk_length(serialized.arg) = 2

\* C10: Chunk::try_from rejects every slice shorter than 12 bytes and every
\* slice of at least 12 bytes with a non-alphabetic byte in bytes 4..8,
\* whatever the other fields are, with the chunk-level error; it never
\* panics.
C10_StructuralChecks ==
    Called(parsed) =>
        LET value == parsed.arg
            r == parsed.result
        IN  /\ ~ IsPanic(r)
            /\ Len(value) < 12 => r = Err("InvalidArray")
            /\ (Len(value) >= 12 /\ \E i \in 5..8 : ~ Letter(value[i]))
                   => r = Err("InvalidArray")

\* a full, CRC-consistent frame was rejected for its tag alone
C10_Witness ==
    /\ Called(parsed)
    /\ Len(parsed.arg) >= 12
    /\ Len(parsed.arg) = 12 + WireLength(parsed.arg)
    /\ WireTag(parsed.arg) = Ru1t
    /\ CrcConsistent(parsed.arg)
    /\ IsErr(parsed.result)

=============================================================================
